---- MODULE Spec2Model ----
(***************************************************************************)
(* CommittedAsset: the per-asset content store of the bundler core.        *)
(* One asset, its four memo slots (content, mapBuffer, map, ast), the      *)
(* cache it reads from and the code generator it falls back to.  Every     *)
(* accessor call is a process; the steps of an async accessor are the      *)
(* synchronous stretches between its awaits, and every promise the code    *)
(* creates is an entry of the promise store.                               *)
(*                                                                         *)
(* Scheduling: the cache and the generator settle their promises at any    *)
(* time, a call may be issued between any two steps, and a suspended call  *)
(* resumes at any time after the value it awaits is available.             *)
(***************************************************************************)
EXTENDS Integers, Sequences, FiniteSets

\* Number of accessor calls issued on the asset in one behaviour.
MaxCalls == 2

Calls == 1..MaxCalls

----------------------------------------------------------------------------
\* JavaScript values.  t is the runtime type, d the data (bytes or code
\* points), k/c identify a promise or a producer by the kind of operation
\* that created it and the call that created it.
V(t, d, k, c) == [t |-> t, d |-> d, k |-> k, c |-> c]

Null == V("null", <<>>, "", 0)
Undefined == V("undefined", <<>>, "", 0)
NoResult == V("none", <<>>, "", 0)
Str(d) == V("string", d, "", 0)
Buf(d) == V("buffer", d, "", 0)
Readable(d) == V("stream", d, "", 0)
SourceMap(d) == V("sourcemap", d, "", 0)
Ast(d) == V("ast", d, "", 0)
Promise(k, c) == V("promise", <<>>, k, c)
Producer(k, c) == V("function", <<>>, k, c)
StreamOf(k, c) == V("stream", <<>>, k, c)
CacheError(code) == V("reject", <<>>, code, 0)
Reject(code) == V("reject", <<>>, code, 0)
Throw(code) == V("throw", <<>>, code, 0)

NoKey == "null"

\* The number of bytes of the UTF-8 sequence a byte leads: 0 for a byte
\* that leads none (a continuation byte, C0, C1, F5..FF).
Utf8Length(h) ==
    IF h < 128 THEN 1
    ELSE IF h >= 194 /\ h <= 223 THEN 2
    ELSE IF h >= 224 /\ h <= 239 THEN 3
    ELSE IF h >= 240 /\ h <= 244 THEN 4
    ELSE 0

\* The range of the byte that may follow the lead byte h: E0 and F0 exclude
\* overlong forms, ED the surrogates, F4 the code points above 10FFFF.
Utf8Lower(h) == IF h = 224 THEN 160 ELSE IF h = 240 THEN 144 ELSE 128
Utf8Upper(h) == IF h = 237 THEN 159 ELSE IF h = 244 THEN 143 ELSE 191

\* Whether the k-th byte after the lead byte of b continues its sequence.
Utf8Continues(b, k) ==
    /\ 1 + k <= Len(b)
    /\ b[1 + k] >= (IF k = 1 THEN Utf8Lower(b[1]) ELSE 128)
    /\ b[1 + k] <= (IF k = 1 THEN Utf8Upper(b[1]) ELSE 191)

\* The number of bytes after the lead byte of b that continue its sequence.
Utf8Continuation(b) ==
    LET n == Utf8Length(b[1]) - 1 IN
    IF n >= 1 /\ Utf8Continues(b, 1)
    THEN IF n >= 2 /\ Utf8Continues(b, 2)
         THEN IF n >= 3 /\ Utf8Continues(b, 3) THEN 3 ELSE 2
         ELSE 1
    ELSE 0

\* The code point a well-formed sequence of 2, 3 or 4 bytes encodes.
Utf8CodePoint(q) ==
    IF Len(q) = 2 THEN (q[1] - 192) * 64 + (q[2] - 128)
    ELSE IF Len(q) = 3
         THEN (q[1] - 224) * 4096 + (q[2] - 128) * 64 + (q[3] - 128)
    ELSE (q[1] - 240) * 262144 + (q[2] - 128) * 4096
             + (q[3] - 128) * 64 + (q[4] - 128)

\* The UTF-16 code units of a code point: itself, or a surrogate pair.
CodeUnits(cp) ==
    IF cp < 65536 THEN <<cp>>
    ELSE <<55296 + ((cp - 65536) \div 1024), 56320 + ((cp - 65536) % 1024)>>

\* UTF-8 decoding of a byte sequence (Buffer.prototype.toString): a
\* well-formed sequence is its character; a byte that leads no sequence, and
\* a sequence cut short by the end of the input or by a byte that does not
\* continue it, is replaced by one U+FFFD, and decoding goes on at the byte
\* after the part replaced.
RECURSIVE Utf8Decode(_)
Utf8Decode(b) ==
    IF b = <<>> THEN <<>>
    ELSE IF b[1] < 128 THEN <<b[1]>> \o Utf8Decode(Tail(b))
    ELSE LET n == Utf8Continuation(b) IN
         IF Utf8Length(b[1]) >= 2 /\ n = Utf8Length(b[1]) - 1
         THEN CodeUnits(Utf8CodePoint(SubSeq(b, 1, n + 1)))
                  \o Utf8Decode(SubSeq(b, n + 2, Len(b)))
         ELSE <<65533>> \o Utf8Decode(SubSeq(b, n + 2, Len(b)))

IsHighSurrogate(u) == u >= 55296 /\ u <= 56319
IsLowSurrogate(u) == u >= 56320 /\ u <= 57343

\* The UTF-8 bytes of a code point that is no surrogate.
Utf8Bytes(cp) ==
    IF cp < 128 THEN <<cp>>
    ELSE IF cp < 2048 THEN <<192 + (cp \div 64), 128 + (cp % 64)>>
    ELSE IF cp < 65536
         THEN <<224 + (cp \div 4096), 128 + ((cp \div 64) % 64),
                128 + (cp % 64)>>
    ELSE <<240 + (cp \div 262144), 128 + ((cp \div 4096) % 64),
           128 + ((cp \div 64) % 64), 128 + (cp % 64)>>

\* UTF-8 encoding of a string of UTF-16 code units (Buffer.from(string)): a
\* surrogate pair is the four bytes of its code point, an unpaired surrogate
\* has no encoding and is written as U+FFFD (EF BF BD), any other code unit
\* is the bytes of its code point.
RECURSIVE Utf8Encode(_)
Utf8Encode(s) ==
    IF s = <<>> THEN <<>>
    ELSE IF IsHighSurrogate(s[1]) /\ Len(s) >= 2 /\ IsLowSurrogate(s[2])
         THEN Utf8Bytes(65536 + (s[1] - 55296) * 1024 + (s[2] - 56320))
                  \o Utf8Encode(SubSeq(s, 3, Len(s)))
    ELSE IF IsHighSurrogate(s[1]) \/ IsLowSurrogate(s[1])
         THEN <<239, 191, 189>> \o Utf8Encode(Tail(s))
    ELSE Utf8Bytes(s[1]) \o Utf8Encode(Tail(s))

\* content.toString() on a string or a Buffer.
toString(v) == IF v.t = "string" THEN Str(v.d) ELSE Str(Utf8Decode(v.d))

\* Buffer.from(content) on a string or a Buffer.
BufferFrom(v) == IF v.t = "string" THEN Buf(Utf8Encode(v.d)) ELSE Buf(v.d)

\* The bytes a Blob (string | Buffer | Readable) puts on a stream.
BlobBytes(v) == IF v.t = "string" THEN Utf8Encode(v.d) ELSE v.d

\* A truthiness test in place of the type test: empty content is no content.
IsNonEmptyStringOrBuffer(v) == v.t \in {"string", "buffer"} /\ v.d # <<>>

\* typeof content === 'string' || content instanceof Buffer
IsStringOrBuffer(v) == v.t \in {"string", "buffer"}

IsError(v) == v.t \in {"reject", "throw"}

----------------------------------------------------------------------------
VARIABLES
    value,      \* this.value: the asset's contentKey, astKey, mapKey
    options,    \* this.options.cache: what the cache holds under each key
    generator,  \* what code generation from the AST yields for this asset
    content,    \* this.content
    mapBuffer,  \* this.mapBuffer
    map,        \* this.map
    ast,        \* this.ast
    promise,    \* every promise the code created: its state and value
    op,         \* the accessor each call invokes ("idle" before the call)
    pc,         \* each call's position: the await it is suspended at
    local,      \* each call's local variable (content / mapBuffer)
    result,     \* what each call returned, resolved to or failed with
    io,         \* per call: cache reads and generations its steps issued
    pred,       \* per call: the calls that had resolved when it started
    heap,       \* per call: the elements of the array the call allocated
    invoked,    \* per call: how often the producer it returned was invoked
    failedPred, \* per call: the calls that had failed when it started
    symbols,    \* bundle graph: each asset's symbol table, per exported name
    boundary,   \* getSymbolResolution: the boundary bundle, if one is given
    query,      \* getSymbolResolution: the (asset, symbol) asked for
    pointer,    \* the resolver's working pointer (asset, exportSymbol)
    visited,    \* the (asset, exportSymbol) pairs this call has followed
    loc,        \* the re-export traversed last
    resolution, \* the SymbolResolution returned
    edges,      \* bundle graph: each node's children, in insertion order
    roots,      \* traversal: the nodes the walk starts from, in order
    stack,      \* traversal: the nodes entered and not yet left, innermost last
    entered,    \* traversal: the nodes visited so far
    events,     \* traversal: the visitor callbacks fired, in order
    decision,   \* traversal: what the visitor did when it entered each node
    parent,     \* traversal: the node each node was entered through
    stopped,    \* traversal: stop() was called
    bundleAssets, \* the assets the bundle contains
    addCalls    \* the assets addAssetGraphToBundle was called with, in order

vars == <<value, options, generator, content, mapBuffer, map, ast,
          promise, op, pc, local, result, io, pred, heap, invoked,
          failedPred,
          symbols, boundary, query, pointer, visited, loc, resolution,
          edges, roots, stack, entered, events, decision, parent, stopped,
          bundleAssets, addCalls>>

config == <<value, options, generator>>

\* The state of the asset and of the calls made on it.
committedAsset == <<value, options, generator, content, mapBuffer, map, ast,
                    promise, op, pc, local, result, io, pred, heap,
                    invoked, failedPred>>

\* The state of a symbol resolution.
resolver == <<symbols, boundary, query, pointer, visited, loc, resolution>>

\* The state of a traversal.
traversal == <<roots, stack, entered, events, decision, parent, stopped>>

\* The state of a bundle's membership.
membership == <<bundleAssets, addCalls>>

\* The state of the bundle graph's operations other than symbol resolution.
bundleGraph == <<edges, traversal, membership>>

PromiseKinds == {"getBlob", "bufferStream", "generate", "resolve",
                 "mapBuffer", "mapGenerate", "map", "ast"}

Pending == [st |-> "pending", v |-> Undefined]
NotCreated == [st |-> "none", v |-> Undefined]
Fulfilled(v) == [st |-> "ok", v |-> v]
Rejected(v) == [st |-> "err", v |-> v]
\* The promise a failing or succeeding operation settles to.
Settle(v) == IF IsError(v) THEN Rejected(v) ELSE Fulfilled(v)

NoIO == [blobContent |-> 0, blobMap |-> 0, blobAst |-> 0,
         stream |-> 0, generate |-> 0]

----------------------------------------------------------------------------
\* The assets, caches and generators the accessors are run against.
ContentOutcomes == {Buf(<<>>), Buf(<<97, 255>>), Buf(<<195, 169>>),
                    CacheError("ENOENT"), CacheError("EIO")}
MapOutcomes == {Buf(<<1>>), CacheError("ENOENT"), CacheError("EIO")}
AstOutcomes == {Buf(<<2>>), CacheError("EIO")}
GeneratedContents == {Str(<<>>), Str(<<97>>), Str(<<233>>), Str(<<55296>>),
                      Buf(<<97, 255>>), Readable(<<97>>)}
GeneratedMaps == {Undefined, SourceMap(<<3>>)}
GenerateOutputs ==
    [content : GeneratedContents, map : GeneratedMaps]
        \cup {[content |-> Reject("GenerateError"), map |-> Undefined]}

\* this.value.dependencies, as the sequence its values() iterates.
Dependencies == {<<>>, <<"dep1", "dep2">>}

Values == [contentKey : {NoKey, "contentKey"},
           astKey : {NoKey, "astKey"},
           mapKey : {NoKey, "mapKey"},
           dependencies : Dependencies]

Caches == [content : ContentOutcomes, map : MapOutcomes, ast : AstOutcomes]

\* A cache entry or generator output no accessor can read for this asset is
\* fixed to one representative.
Relevant(v, o, g) ==
    /\ v.contentKey = NoKey => o.content = Buf(<<>>)
    /\ v.mapKey = NoKey => o.map = Buf(<<1>>)
    /\ v.astKey = NoKey => o.ast = Buf(<<2>>)
    /\ v.astKey = NoKey => g = [content |-> Str(<<>>), map |-> Undefined]
    /\ (v.contentKey # NoKey /\ ~IsError(g.content)) => g.content = Str(<<>>)
    /\ (v.mapKey = NoKey \/ o.map # CacheError("ENOENT")) => g.map = Undefined

\* constructor(value, options): no memo slot is set, no call is made.
Constructed ==
    /\ content = Null
    /\ mapBuffer = Null
    /\ map = Null
    /\ ast = Null
    /\ promise = [p \in PromiseKinds \X Calls |-> NotCreated]
    /\ op = [c \in Calls |-> "idle"]
    /\ pc = [c \in Calls |-> "idle"]
    /\ local = [c \in Calls |-> Undefined]
    /\ result = [c \in Calls |-> NoResult]
    /\ io = [c \in Calls |-> NoIO]
    /\ pred = [c \in Calls |-> {}]
    /\ heap = [c \in Calls |-> <<>>]
    /\ invoked = [c \in Calls |-> 0]
    /\ failedPred = [c \in Calls |-> {}]

\* The assets and exported names of the bundle graphs resolved over.
Assets == {"a", "b"}
Symbols == {"x", "y"}
Pairs == Assets \X Symbols

\* An entry of an asset's symbol table for an exported name: the name is
\* missing; or the asset's symbols are cleared; or the name has a genuine
\* local definition; or its binding re-exports another asset's export.
Missing == [kind |-> "missing", asset |-> "", symbol |-> ""]
Cleared == [kind |-> "cleared", asset |-> "", symbol |-> ""]
Local(n) == [kind |-> "local", asset |-> "", symbol |-> n]
ReExport(a, s) == [kind |-> "reexport", asset |-> a, symbol |-> s]
Entries ==
    {Missing, Cleared, Local("foo")} \cup {ReExport(p[1], p[2]) : p \in Pairs}

\* boundary: ?Bundle, a bundle being the set of assets it contains.
NoBundle == [given |-> FALSE, assets |-> {}]
Bundle(S) == [given |-> TRUE, assets |-> S]
Boundaries == {NoBundle} \cup {Bundle(S) : S \in SUBSET Assets}

\* A local name as the symbol of a SymbolResolution.
Name(n) == V("name", <<>>, n, 0)
NoLoc == <<"", "">>
NoResolution ==
    [asset |-> "", exportSymbol |-> "", symbol |-> NoResult, loc |-> NoLoc]

\* No symbol resolution is asked for.
NoQuery ==
    /\ symbols = [p \in Pairs |-> Missing]
    /\ boundary = NoBundle
    /\ query = <<"a", "x">>
    /\ pointer = <<"a", "x">>
    /\ visited = {}
    /\ loc = NoLoc
    /\ resolution = NoResolution

\* The nodes of the bundle graphs walked and added from; Root stands for
\* the start of a traversal, whose children are the nodes it starts from.
Nodes == {"n1", "n2", "n3"}
Root == "root"
None == "none"

\* The sequences of distinct nodes of S of length at most two.
ChildLists(S) ==
    {<<>>} \cup {<<m>> : m \in S}
        \cup {<<p[1], p[2]>> : p \in {q \in S \X S : q[1] # q[2]}}

\* The graphs: every node's children among the other nodes, cycles included.
Graphs == {g \in [Nodes -> ChildLists(Nodes)] :
              \A n \in Nodes : g[n] \in ChildLists(Nodes \ {n})}

\* No traversal is made.
NoTraversal ==
    /\ roots = <<>>
    /\ stack = <<>>
    /\ entered = {}
    /\ events = <<>>
    /\ decision = [n \in Nodes |-> None]
    /\ parent = [n \in Nodes |-> None]
    /\ stopped = FALSE

\* No asset is added to a bundle.
NoMembership ==
    /\ bundleAssets = {}
    /\ addCalls = <<>>

\* No operation of the bundle graph other than symbol resolution is used.
NoBundleGraph ==
    /\ edges = [n \in Nodes |-> <<>>]
    /\ NoTraversal
    /\ NoMembership

\* One committed asset on which no accessor is called.
NoAsset ==
    /\ value = [contentKey |-> NoKey, astKey |-> NoKey, mapKey |-> NoKey,
                dependencies |-> <<>>]
    /\ options = [content |-> Buf(<<>>), map |-> Buf(<<1>>),
                  ast |-> Buf(<<2>>)]
    /\ generator = [content |-> Str(<<>>), map |-> Undefined]
    /\ Constructed

\* The accessors of one committed asset, under every cache and generator.
Init ==
    /\ value \in Values
    /\ options \in Caches
    /\ generator \in GenerateOutputs
    /\ Relevant(value, options, generator)
    /\ Constructed
    /\ NoQuery
    /\ NoBundleGraph

----------------------------------------------------------------------------
\* What a call has resolved to so far: a returned promise stands for its
\* settled value, NoResult while the call or its promise is pending.
Outcome(c) ==
    IF result[c].t = "promise"
    THEN LET p == promise[<<result[c].k, result[c].c>>] IN
         IF p.st \in {"ok", "err"} THEN p.v ELSE NoResult
    ELSE result[c]

Settled(c) == Outcome(c) # NoResult
ResolvedOk(c) == Settled(c) /\ ~IsError(Outcome(c))
Failed(c) == Settled(c) /\ IsError(Outcome(c))

\* A call is issued: calls are numbered in the order they are made.
Start(c, o) ==
    /\ op[c] = "idle"
    /\ IF c = 1 THEN TRUE ELSE op[c - 1] # "idle"
    /\ op' = [op EXCEPT ![c] = o]
    /\ pred' = [pred EXCEPT ![c] = {d \in Calls : ResolvedOk(d)}]
    /\ failedPred' = [failedPred EXCEPT ![c] = {d \in Calls : Failed(d)}]

\* The value an await of x yields once x is settled: a promise's value or
\* rejection, or x itself when x is no promise.
CanResume(x) == x.t = "promise" => promise[<<x.k, x.c>>].st \in {"ok", "err"}
Awaited(x) == IF x.t = "promise" THEN promise[<<x.k, x.c>>].v ELSE x

----------------------------------------------------------------------------
\* generateFromAST(asset): one invocation of the code generator, whose
\* promise settles later to the generator's output.
generateFromAST(c, k) ==
    /\ promise' = [promise EXCEPT ![<<k, c>>] = Pending]
    /\ io' = [io EXCEPT ![c].generate = @ + 1]

\* getContent() without the check of the memo slot.
getContentCaseNoMemo ==
    IF value.contentKey # NoKey THEN "cache"
    ELSE IF value.astKey # NoKey THEN "generate"
    ELSE "throw"

\* getContent() preferring the AST to the cached bytes.
getContentCaseAstFirst ==
    IF content # Null THEN "memo"
    ELSE IF value.astKey # NoKey THEN "generate"
    ELSE IF value.contentKey # NoKey THEN "cache"
    ELSE "throw"

\* getContent(): which branch the call takes.
getContentCase ==
    IF content # Null THEN "memo"
    ELSE IF value.contentKey # NoKey THEN "cache"
    ELSE IF value.astKey # NoKey THEN "generate"
    ELSE "throw"

\* getContent() returning the empty slot where it has to throw.
getContentNoThrow(c) ==
    CASE getContentCase = "memo" -> content
      [] getContentCase = "cache" -> Producer("cache", c)
      [] getContentCase = "generate" -> Producer("generate", c)
      [] OTHER -> Null

\* getContent(): what the call returns (or throws).
getContent(c) ==
    CASE getContentCase = "memo" -> content
      [] getContentCase = "cache" -> Producer("cache", c)
      [] getContentCase = "generate" -> Producer("generate", c)
      [] OTHER -> Throw("NoContent")

\* getContent() leaving the generation to the producer it returns.
CallGetContentLazy(c) ==
    /\ Start(c, "getContent")
    /\ UNCHANGED <<promise, io>>
    /\ result' = [result EXCEPT ![c] = getContent(c)]
    /\ pc' = [pc EXCEPT ![c] = "done"]
    /\ UNCHANGED <<resolver, bundleGraph, invoked, config, heap, content,
                   mapBuffer, map, ast, local>>

\* getContent() as a call of its own.
CallGetContent(c) ==
    /\ Start(c, "getContent")
    /\ IF getContentCase = "generate"
       THEN generateFromAST(c, "generate")
       ELSE UNCHANGED <<promise, io>>
    /\ result' = [result EXCEPT ![c] = getContent(c)]
    /\ pc' = [pc EXCEPT ![c] = "done"]
    /\ UNCHANGED <<resolver, bundleGraph, invoked, config, heap, content, mapBuffer, map, ast, local>>

\* The invocations of one producer by the caller of getContent().
MaxUses == 2

\* The caller of getContent() invokes the producer it was handed: line 31
\* opens a stream on the cache, line 39 wraps the generation that
\* getContent() started.
InvokeProducer(c) ==
    /\ op[c] = "getContent" /\ result[c].t = "function"
    /\ invoked[c] < MaxUses
    /\ invoked' = [invoked EXCEPT ![c] = @ + 1]
    /\ io' = IF result[c].k = "cache"
             THEN [io EXCEPT ![c].stream = @ + 1]
             ELSE io
    /\ UNCHANGED <<resolver, bundleGraph, failedPred, config, heap, content, mapBuffer,
                   map, ast, promise, op, pc, local, result, pred>>

\* The generator finishes and no then-callback memoizes its content.
SettleGenerateNoMemo(c) ==
    /\ promise[<<"generate", c>>].st = "pending"
    /\ promise' = [promise EXCEPT ![<<"generate", c>>] =
          Settle(generator.content)]
    /\ UNCHANGED <<resolver, bundleGraph, invoked, failedPred, config, heap, content, mapBuffer, map, ast, op, pc, local,
                   result, io, pred>>

\* The generator finishes for the generation getContent() started, and the
\* then-callback of getContent() memoizes a content that is no function.
SettleGenerate(c) ==
    /\ promise[<<"generate", c>>].st = "pending"
    /\ IF IsError(generator.content)
       THEN /\ promise' = [promise EXCEPT
                   ![<<"generate", c>>] = Rejected(generator.content)]
            /\ content' = content
       ELSE /\ promise' = [promise EXCEPT
                   ![<<"generate", c>>] = Fulfilled(generator.content),
                   ![<<"resolve", c>>] =
                       IF generator.content.t # "function"
                       THEN Fulfilled(generator.content) ELSE @]
            /\ content' = IF generator.content.t # "function"
                          THEN Promise("resolve", c) ELSE content
    /\ UNCHANGED <<resolver, bundleGraph, invoked, failedPred, config, heap, mapBuffer, map, ast, op, pc, local, result, io, pred>>

\* Line 50 reading the blob again when the memoized read has failed.
getCodeRetriesBlob ==
    /\ value.contentKey # NoKey
    /\ IF content = Null THEN TRUE
       ELSE promise[<<content.k, content.c>>].st = "err"

\* Line 50 without the check of the memo slot.
getCodeReadsBlobAlways == value.contentKey # NoKey

\* getCode(), line 50: whether the call reads the blob itself.
getCodeReadsBlob == content = Null /\ value.contentKey # NoKey

\* getCode() up to its first await.
CallGetCode(c) ==
    /\ Start(c, "getCode")
    /\ IF getCodeReadsBlob
       THEN /\ content' = Promise("getBlob", c)
            /\ promise' = [promise EXCEPT ![<<"getBlob", c>>] = Pending]
            /\ io' = [io EXCEPT ![c].blobContent = @ + 1]
            /\ local' = [local EXCEPT ![c] = Promise("getBlob", c)]
            /\ pc' = [pc EXCEPT ![c] = "awaitContent"]
            /\ result' = result
       ELSE /\ content' = content
            /\ IF getContentCase = "generate"
               THEN generateFromAST(c, "generate")
               ELSE UNCHANGED <<promise, io>>
            /\ IF getContent(c).t = "throw"
               THEN /\ result' = [result EXCEPT ![c] = Reject(getContent(c).k)]
                    /\ pc' = [pc EXCEPT ![c] = "done"]
                    /\ local' = local
               ELSE /\ local' = [local EXCEPT ![c] = getContent(c)]
                    /\ pc' = [pc EXCEPT ![c] = "awaitContent"]
                    /\ result' = result
    /\ UNCHANGED <<resolver, bundleGraph, invoked, config, heap, mapBuffer, map, ast>>

\* cache.getBlob(contentKey) settles.
SettleGetBlob(c) ==
    /\ promise[<<"getBlob", c>>].st = "pending"
    /\ promise' = [promise EXCEPT ![<<"getBlob", c>>] = Settle(options.content)]
    /\ UNCHANGED <<resolver, bundleGraph, invoked, failedPred, config, heap, content, mapBuffer, map, ast, op, pc, local,
                   result, io, pred>>

\* The producer is drained but the draining promise is not stored.
DrainProducerNoMemo(c) ==
    /\ content' = content
    /\ promise' = [promise EXCEPT ![<<"bufferStream", c>>] = Pending]
    /\ io' = IF local[c].k = "cache"
             THEN [io EXCEPT ![c].stream = @ + 1] ELSE io
    /\ pc' = [pc EXCEPT ![c] = "awaitBuffer"]
    /\ result' = result

\* this.content = bufferStream(content()): the producer is invoked (a cache
\* producer opens cache.getStream, a generation producer wraps the pending
\* generation) and the slot is assigned the draining promise.
DrainProducer(c) ==
    /\ content' = Promise("bufferStream", c)
    /\ promise' = [promise EXCEPT ![<<"bufferStream", c>>] = Pending]
    /\ io' = IF local[c].k = "cache"
             THEN [io EXCEPT ![c].stream = @ + 1] ELSE io
    /\ pc' = [pc EXCEPT ![c] = "awaitBuffer"]
    /\ result' = result

\* The call ends with the value or failure r and touches nothing else.
Finish(c, r) ==
    /\ result' = [result EXCEPT ![c] = r]
    /\ pc' = [pc EXCEPT ![c] = "done"]
    /\ UNCHANGED <<content, promise, io>>

\* getCode() after `await this.content` / `await this.getContent()`.
GetCodeResume(c) ==
    /\ op[c] = "getCode" /\ pc[c] = "awaitContent"
    /\ CanResume(local[c])
    /\ LET v == Awaited(local[c]) IN
       CASE IsError(v) -> Finish(c, v)
         [] IsStringOrBuffer(v) -> Finish(c, toString(v))
         [] v.t = "function" -> DrainProducer(c)
         [] v.t \in {"null", "undefined"} -> Finish(c, Str(<<>>))
         [] OTHER -> Finish(c, Reject("TypeError"))
    /\ UNCHANGED <<resolver, bundleGraph, invoked, failedPred, config, heap, mapBuffer, map, ast, op, local, pred>>

\* bufferStream(...) settles: the cache stream ends or fails, or the
\* generation it wraps has fulfilled. streamFromPromise(generated) writes
\* the content to its stream when the generation fulfils and has no
\* handler for its rejection: over a failed generation the stream neither
\* ends nor fails, and the draining promise stays pending.
SettleBufferStream(c) ==
    /\ promise[<<"bufferStream", c>>].st = "pending"
    /\ IF local[c].k = "cache"
       THEN promise' = [promise EXCEPT ![<<"bufferStream", c>>] =
                            Settle(options.content)]
       ELSE LET g == promise[<<"generate", local[c].c>>] IN
            /\ g.st = "ok"
            /\ promise' = [promise EXCEPT ![<<"bufferStream", c>>] =
                   Fulfilled(Buf(BlobBytes(g.v)))]
    /\ UNCHANGED <<resolver, bundleGraph, invoked, failedPred, config, heap, content, mapBuffer, map, ast, op, pc, local,
                   result, io, pred>>

\* getCode() after `await this.content` of line 61.
GetCodeReturn(c) ==
    /\ op[c] = "getCode" /\ pc[c] = "awaitBuffer"
    /\ CanResume(Promise("bufferStream", c))
    /\ LET v == Awaited(Promise("bufferStream", c)) IN
       Finish(c, IF IsError(v) THEN v ELSE toString(v))
    /\ UNCHANGED <<resolver, bundleGraph, invoked, failedPred, config, heap, mapBuffer, map, ast, op, local, pred>>

\* getBuffer() up to its await.
CallGetBuffer(c) ==
    /\ Start(c, "getBuffer")
    /\ IF getContentCase = "generate"
       THEN generateFromAST(c, "generate")
       ELSE UNCHANGED <<promise, io>>
    /\ IF getContent(c).t = "throw"
       THEN /\ result' = [result EXCEPT ![c] = Reject(getContent(c).k)]
            /\ pc' = [pc EXCEPT ![c] = "done"]
            /\ local' = local
       ELSE /\ local' = [local EXCEPT ![c] = getContent(c)]
            /\ pc' = [pc EXCEPT ![c] = "awaitContent"]
            /\ result' = result
    /\ UNCHANGED <<resolver, bundleGraph, invoked, config, heap, content, mapBuffer, map, ast>>

\* getBuffer() after `await this.getContent()`.
GetBufferResume(c) ==
    /\ op[c] = "getBuffer" /\ pc[c] = "awaitContent"
    /\ CanResume(local[c])
    /\ LET v == Awaited(local[c]) IN
       CASE IsError(v) -> Finish(c, v)
         [] v.t \in {"null", "undefined"} -> Finish(c, Buf(<<>>))
         [] IsStringOrBuffer(v) -> Finish(c, BufferFrom(v))
         [] v.t = "function" -> DrainProducer(c)
         [] OTHER -> Finish(c, Reject("TypeError"))
    /\ UNCHANGED <<resolver, bundleGraph, invoked, failedPred, config, heap, mapBuffer, map, ast, op, local, pred>>

\* getBuffer() resolves with the promise it returned (`return this.content`).
GetBufferReturn(c) ==
    /\ op[c] = "getBuffer" /\ pc[c] = "awaitBuffer"
    /\ CanResume(Promise("bufferStream", c))
    /\ Finish(c, Awaited(Promise("bufferStream", c)))
    /\ UNCHANGED <<resolver, bundleGraph, invoked, failedPred, config, heap, mapBuffer, map, ast, op, local, pred>>

\* getStream(): synchronous.
CallGetStream(c) ==
    /\ Start(c, "getStream")
    /\ CASE getContentCase = "generate" -> generateFromAST(c, "generate")
         [] getContentCase = "cache" ->
              /\ io' = [io EXCEPT ![c].stream = @ + 1]
              /\ promise' = promise
         [] OTHER -> UNCHANGED <<promise, io>>
    /\ result' = [result EXCEPT ![c] =
          LET x == getContent(c) IN
          IF x.t = "throw" THEN x ELSE StreamOf(x.k, x.c)]
    /\ pc' = [pc EXCEPT ![c] = "done"]
    /\ UNCHANGED <<resolver, bundleGraph, invoked, config, heap, content, mapBuffer, map, ast, local>>

----------------------------------------------------------------------------
\* Line 87 without the check of the memo slot.
startsMapReadAlways == value.mapKey # NoKey

\* Line 87 without the check of the key.
startsMapReadWithoutKey == mapBuffer = Null

\* getMapBuffer(), line 87: whether the call starts the cache read.
startsMapRead == value.mapKey # NoKey /\ mapBuffer = Null

\* getMapBuffer(): the promise the call returns.
getMapBuffer(c) ==
    IF startsMapRead THEN Promise("mapBuffer", c)
    ELSE IF mapBuffer # Null THEN mapBuffer
    ELSE Undefined

\* getMapBuffer() as a call of its own.
CallGetMapBuffer(c) ==
    /\ Start(c, "getMapBuffer")
    /\ IF startsMapRead
       THEN /\ mapBuffer' = Promise("mapBuffer", c)
            /\ promise' = [promise EXCEPT ![<<"mapBuffer", c>>] = Pending]
            /\ io' = [io EXCEPT ![c].blobMap = @ + 1]
       ELSE UNCHANGED <<mapBuffer, promise, io>>
    /\ result' = [result EXCEPT ![c] = getMapBuffer(c)]
    /\ pc' = [pc EXCEPT ![c] = "done"]
    /\ UNCHANGED <<resolver, bundleGraph, invoked, config, heap, content, map, ast, local>>

\* Line 92 without the test of the error code.
fallsBackOnAnyError(err) == value.astKey # NoKey

\* getMapBuffer(), line 92: whether a failed read falls back to the AST.
fallsBackToAST(err) == err.k = "ENOENT" /\ value.astKey # NoKey

\* map?.toBuffer()
toBuffer(m) == IF m.t \in {"null", "undefined"} THEN Undefined ELSE Buf(m.d)

\* The async body of getMapBuffer() after `await cache.getBlob(mapKey)`.
MapBufferRead(c) ==
    /\ promise[<<"mapBuffer", c>>].st = "pending"
    /\ promise[<<"mapGenerate", c>>].st = "none"
    /\ IF ~IsError(options.map)
       THEN /\ promise' = [promise EXCEPT
                   ![<<"mapBuffer", c>>] = Fulfilled(options.map)]
            /\ io' = io
       ELSE IF fallsBackToAST(options.map)
       THEN generateFromAST(c, "mapGenerate")
       ELSE /\ promise' = [promise EXCEPT
                   ![<<"mapBuffer", c>>] = Rejected(options.map)]
            /\ io' = io
    /\ UNCHANGED <<resolver, bundleGraph, invoked, failedPred, config, heap, content, mapBuffer, map, ast, op, pc, local,
                   result, pred>>

\* The generator finishes for the generation the fallback of
\* getMapBuffer() started: its promise settles to the output {content, map}
\* or to the generator's failure.
SettleMapGenerate(c) ==
    /\ promise[<<"mapGenerate", c>>].st = "pending"
    /\ promise' = [promise EXCEPT ![<<"mapGenerate", c>>] =
          IF IsError(generator.content) THEN Rejected(generator.content)
          ELSE Fulfilled(generator)]
    /\ UNCHANGED <<resolver, bundleGraph, invoked, failedPred, config, heap,
                   content, mapBuffer, map, ast, op, pc, local, result, io,
                   pred>>

\* The fallback generation of getMapBuffer() memoizing the content too.
MapBufferGeneratedMemoContent(c) ==
    /\ promise[<<"mapBuffer", c>>].st = "pending"
    /\ promise[<<"mapGenerate", c>>].st \in {"ok", "err"}
    /\ LET g == promise[<<"mapGenerate", c>>] IN
       promise' = [promise EXCEPT
          ![<<"resolve", c>>] =
              IF g.st = "err" THEN Rejected(g.v) ELSE Fulfilled(g.v.content),
          ![<<"mapBuffer", c>>] =
              IF g.st = "err" THEN Rejected(g.v)
              ELSE Fulfilled(toBuffer(g.v.map))]
    /\ content' = Promise("resolve", c)
    /\ UNCHANGED <<resolver, bundleGraph, invoked, failedPred, config, heap,
                   mapBuffer, map, ast, op, pc, local, result, io, pred>>

\* The async body of getMapBuffer() after `await generateFromAST(this)`:
\* the promise the call stored resolves to the generated map's bytes, or
\* rejects with the generator's failure.
MapBufferGenerated(c) ==
    /\ promise[<<"mapBuffer", c>>].st = "pending"
    /\ promise[<<"mapGenerate", c>>].st \in {"ok", "err"}
    /\ LET g == promise[<<"mapGenerate", c>>] IN
       promise' = [promise EXCEPT ![<<"mapBuffer", c>>] =
          IF g.st = "err" THEN Rejected(g.v) ELSE Fulfilled(toBuffer(g.v.map))]
    /\ UNCHANGED <<resolver, bundleGraph, invoked, failedPred, config, heap,
                   content, mapBuffer, map, ast, op, pc, local, result, io,
                   pred>>

\* getMap() up to `await this.getMapBuffer()`.
CallGetMap(c) ==
    /\ Start(c, "getMap")
    /\ IF map = Null
       THEN /\ map' = Promise("map", c)
            /\ mapBuffer' = IF startsMapRead THEN Promise("mapBuffer", c)
                            ELSE mapBuffer
            /\ promise' = [promise EXCEPT
                  ![<<"map", c>>] = Pending,
                  ![<<"mapBuffer", c>>] = IF startsMapRead THEN Pending ELSE @]
            /\ io' = IF startsMapRead
                     THEN [io EXCEPT ![c].blobMap = @ + 1] ELSE io
            /\ local' = [local EXCEPT ![c] = getMapBuffer(c)]
            /\ pc' = [pc EXCEPT ![c] = "awaitMapBuffer"]
            /\ result' = [result EXCEPT ![c] = Promise("map", c)]
       ELSE /\ result' = [result EXCEPT ![c] = map]
            /\ pc' = [pc EXCEPT ![c] = "done"]
            /\ UNCHANGED <<map, mapBuffer, promise, io, local>>
    /\ UNCHANGED <<resolver, bundleGraph, invoked, config, heap, content, ast>>

\* new SourceMap(mapBuffer)
NewSourceMap(b) == SourceMap(b.d)

\* getMap() after `await this.getMapBuffer()`.
GetMapResume(c) ==
    /\ op[c] = "getMap" /\ pc[c] = "awaitMapBuffer"
    /\ CanResume(local[c])
    /\ LET v == Awaited(local[c]) IN
       promise' = [promise EXCEPT ![<<"map", c>>] =
          IF IsError(v) THEN Rejected(v)
          ELSE IF v.t \notin {"null", "undefined"} THEN Fulfilled(NewSourceMap(v))
          ELSE Fulfilled(Undefined)]
    /\ pc' = [pc EXCEPT ![c] = "done"]
    /\ UNCHANGED <<resolver, bundleGraph, invoked, failedPred, config, heap, content, mapBuffer, map, ast, op, local,
                   result, io, pred>>

\* deserializeRaw(serializedAst)
deserializeRaw(b) == Ast(b.d)

\* getAST() without the check of the memo slot.
CallGetASTNoMemo(c) ==
    /\ Start(c, "getAST")
    /\ IF value.astKey = NoKey
       THEN /\ result' = [result EXCEPT ![c] = Null]
            /\ UNCHANGED <<ast, promise, io>>
       ELSE /\ ast' = Promise("ast", c)
            /\ promise' = [promise EXCEPT ![<<"ast", c>>] = Pending]
            /\ io' = [io EXCEPT ![c].blobAst = @ + 1]
            /\ result' = [result EXCEPT ![c] = Promise("ast", c)]
    /\ pc' = [pc EXCEPT ![c] = "done"]
    /\ UNCHANGED <<resolver, bundleGraph, invoked, config, heap, content, mapBuffer, map, local>>

\* getAST().
CallGetAST(c) ==
    /\ Start(c, "getAST")
    /\ IF value.astKey = NoKey
       THEN /\ result' = [result EXCEPT ![c] = Null]
            /\ UNCHANGED <<ast, promise, io>>
       ELSE IF ast = Null
       THEN /\ ast' = Promise("ast", c)
            /\ promise' = [promise EXCEPT ![<<"ast", c>>] = Pending]
            /\ io' = [io EXCEPT ![c].blobAst = @ + 1]
            /\ result' = [result EXCEPT ![c] = Promise("ast", c)]
       ELSE /\ result' = [result EXCEPT ![c] = ast]
            /\ UNCHANGED <<ast, promise, io>>
    /\ pc' = [pc EXCEPT ![c] = "done"]
    /\ UNCHANGED <<resolver, bundleGraph, invoked, config, heap, content, mapBuffer, map, local>>

\* The read of the AST with its failure turned into an empty result.
SettleASTNullOnError(c) ==
    /\ promise[<<"ast", c>>].st = "pending"
    /\ promise' = [promise EXCEPT ![<<"ast", c>>] =
          IF IsError(options.ast) THEN Fulfilled(Null)
          ELSE Fulfilled(deserializeRaw(options.ast))]
    /\ UNCHANGED <<resolver, bundleGraph, invoked, failedPred, config, heap, content, mapBuffer, map, ast, op, pc, local,
                   result, io, pred>>

\* cache.getBlob(astKey).then(deserializeRaw) settles.
SettleAST(c) ==
    /\ promise[<<"ast", c>>].st = "pending"
    /\ promise' = [promise EXCEPT ![<<"ast", c>>] =
          IF IsError(options.ast) THEN Rejected(options.ast)
          ELSE Fulfilled(deserializeRaw(options.ast))]
    /\ UNCHANGED <<resolver, bundleGraph, invoked, failedPred, config, heap, content, mapBuffer, map, ast, op, pc, local,
                   result, io, pred>>

----------------------------------------------------------------------------
\* A reference to the array the call c allocated; the reference 0 is to the
\* asset's own collection this.value.dependencies.
ArrayRef(c) == V("array", <<>>, "", c)

\* The elements of the array a reference points to.
Deref(r) == IF r.c = 0 THEN value.dependencies ELSE heap[r.c]

\* getDependencies() handing out the asset's own collection.
getDependenciesByReference(c) ==
    /\ Start(c, "getDependencies")
    /\ result' = [result EXCEPT ![c] = ArrayRef(0)]
    /\ pc' = [pc EXCEPT ![c] = "done"]
    /\ UNCHANGED <<resolver, bundleGraph, invoked, config, heap, content, mapBuffer, map, ast, promise,
                   local, io>>

\* getDependencies(): Array.from copies the values into a new array.
getDependencies(c) ==
    /\ Start(c, "getDependencies")
    /\ heap' = [heap EXCEPT ![c] = value.dependencies]
    /\ result' = [result EXCEPT ![c] = ArrayRef(c)]
    /\ pc' = [pc EXCEPT ![c] = "done"]
    /\ UNCHANGED <<resolver, bundleGraph, invoked, config, content, mapBuffer, map, ast, promise, local, io>>

\* What a caller's pop() makes of an array.
Mutations(a) == IF a = <<>> THEN {} ELSE {SubSeq(a, 1, Len(a) - 1)}

\* The caller of getDependencies() modifies the array it was handed.
MutateReturned(c) ==
    /\ op[c] = "getDependencies" /\ pc[c] = "done"
    /\ \E a \in Mutations(Deref(result[c])) :
          IF result[c].c = 0
          THEN /\ value' = [value EXCEPT !.dependencies = a]
               /\ UNCHANGED <<options, generator, heap>>
          ELSE /\ heap' = [heap EXCEPT ![result[c].c] = a]
               /\ UNCHANGED config
    /\ UNCHANGED <<resolver, bundleGraph, invoked, failedPred, content, mapBuffer, map, ast, promise, op, pc, local,
                   result, io, pred>>

----------------------------------------------------------------------------
\* bundle.hasAsset(asset)
hasAsset(b, a) == a \in b.assets

\* A boundary that no asset is outside of.
leftBoundaryNever(a) == FALSE

\* The asset is not contained in the boundary bundle:
\* bundle.hasAsset(asset) === false.
leftBoundary(a) == boundary.given /\ ~hasAsset(boundary, a)

\* A cycle guard that remembers nothing.
seenNever(p) == FALSE

\* The cycle guard: the pair was followed earlier in this call.
seen(p) == p \in visited

\* Step 2 applies: the name at the pair p is a re-export, the pair was not
\* followed before, and the asset it re-exports from, the next asset of the
\* chain, is contained in the boundary.
follows(p) ==
    /\ symbols[p].kind = "reexport"
    /\ ~seen(p)
    /\ ~leftBoundary(symbols[p].asset)

\* The result's symbol with a bailed-out table reported as a missing name.
symbolAtNoBailout(p) ==
    CASE symbols[p].kind = "missing" -> Undefined
      [] symbols[p].kind = "cleared" -> Undefined
      [] symbols[p].kind = "local" -> Name(symbols[p].symbol)
      [] OTHER -> Undefined

\* The symbol of the result when the resolver stops at the pair p: steps 1,
\* 3 and 4 by the entry of the current asset's symbol table, and undefined
\* for a re-export that is not followed, the next asset being outside the
\* boundary or the pair being on a cycle.
symbolAt(p) ==
    CASE symbols[p].kind = "missing" -> Undefined
      [] symbols[p].kind = "cleared" -> Null
      [] symbols[p].kind = "local" -> Name(symbols[p].symbol)
      [] OTHER -> Undefined

\* getSymbolResolution, step 2: advance the pointer to the re-exported
\* asset and export, recording the pair and the location traversed.
getSymbolResolutionFollow ==
    /\ resolution = NoResolution
    /\ follows(pointer)
    /\ pointer' = <<symbols[pointer].asset, symbols[pointer].symbol>>
    /\ visited' = visited \cup {pointer}
    /\ loc' = pointer
    /\ UNCHANGED <<committedAsset, bundleGraph, symbols, boundary, query, resolution>>

\* getSymbolResolution returns: steps 1, 3 and 4, the boundary and the cycle.
getSymbolResolutionReturn ==
    /\ resolution = NoResolution
    /\ ~follows(pointer)
    /\ resolution' = [asset |-> pointer[1], exportSymbol |-> pointer[2],
                      symbol |-> symbolAt(pointer), loc |-> loc]
    /\ UNCHANGED <<committedAsset, bundleGraph, symbols, boundary, query, pointer,
                   visited, loc>>

\* getSymbolResolution(asset, symbol, boundary) over every symbol table,
\* asked on any asset with any boundary.
InitResolver ==
    /\ NoAsset
    /\ NoBundleGraph
    /\ symbols \in [Pairs -> Entries]
    /\ boundary \in Boundaries
    /\ query \in Pairs
    /\ pointer = query
    /\ visited = {}
    /\ loc = NoLoc
    /\ resolution = NoResolution

NextResolver ==
    \/ getSymbolResolutionFollow
    \/ getSymbolResolutionReturn

SpecResolver == InitResolver /\ [][NextResolver]_vars

\* The resolver's loop runs on until it returns.
FairResolver == SpecResolver /\ WF_vars(NextResolver)

----------------------------------------------------------------------------
\* The children of a node, those of Root being the nodes the walk starts
\* from.
children(n) == IF n = Root THEN roots ELSE edges[n]

\* The first node of a sequence that the walk has not visited.
RECURSIVE firstNew(_)
firstNew(q) ==
    IF q = <<>> THEN None
    ELSE IF Head(q) \notin entered THEN Head(q)
    ELSE firstNew(Tail(q))

\* The innermost node entered and not yet left.
top == stack[Len(stack)]

\* The node the walk enters next, if any: the first unvisited child of the
\* innermost node, unless its children were skipped.
nextChild == IF top.open THEN firstNew(children(top.node)) ELSE None

\* A walk that goes on after stop().
runningAfterStop == stack # <<>>

\* The walk goes on: it has not returned and stop() was not called.
running == stack # <<>> /\ ~stopped

\* What a visitor does in its enter callback.
EnterDecisions == {"continue", "skipChildren", "stop"}
\* What a visitor does in its exit callback.
ExitDecisions == {"continue", "stop"}

\* The enter callback fires for the next node, and the visitor continues,
\* calls skipChildren() or calls stop(). Whether the exit callback of a
\* node whose children are skipped fires is left open.
traverseEnter ==
    /\ running
    /\ nextChild # None
    /\ \E d \in EnterDecisions : \E exits \in BOOLEAN :
          /\ events' = Append(events, <<"enter", nextChild>>)
          /\ entered' = entered \cup {nextChild}
          /\ decision' = [decision EXCEPT ![nextChild] = d]
          /\ parent' = [parent EXCEPT ![nextChild] = top.node]
          /\ stopped' = (stopped \/ d = "stop")
          /\ stack' =
                CASE d = "continue" /\ exits ->
                       Append(stack, [node |-> nextChild, open |-> TRUE])
                  [] d = "skipChildren" /\ exits ->
                       Append(stack, [node |-> nextChild, open |-> FALSE])
                  [] OTHER -> stack
          /\ (d # "skipChildren") => exits = (d = "continue")
    /\ UNCHANGED <<committedAsset, resolver, edges, roots, membership>>

\* Every child of the innermost node is done: its exit callback fires, and
\* the visitor continues or calls stop().
traverseExit ==
    /\ running
    /\ nextChild = None
    /\ top.node # Root
    /\ \E d \in ExitDecisions :
          /\ events' = Append(events, <<"exit", top.node>>)
          /\ stopped' = (stopped \/ d = "stop")
          /\ stack' = SubSeq(stack, 1, Len(stack) - 1)
    /\ UNCHANGED <<committedAsset, resolver, edges, roots, entered, decision,
                   parent, membership>>

\* Nothing is left to visit: the traversal returns.
traverseReturn ==
    /\ running
    /\ nextChild = None
    /\ top.node = Root
    /\ stack' = <<>>
    /\ UNCHANGED <<committedAsset, resolver, edges, roots, entered, events,
                   decision, parent, stopped, membership>>

\* A traversal of a graph from one node or from three (traverseBundles
\* over the bundles in insertion order), with every visitor.
InitTraversal ==
    /\ NoAsset
    /\ NoQuery
    /\ NoMembership
    /\ edges \in Graphs
    /\ roots \in {<<"n1">>, <<"n1", "n2", "n3">>}
    /\ stack = <<[node |-> Root, open |-> TRUE]>>
    /\ entered = {}
    /\ events = <<>>
    /\ decision = [n \in Nodes |-> None]
    /\ parent = [n \in Nodes |-> None]
    /\ stopped = FALSE

NextTraversal ==
    \/ traverseEnter
    \/ traverseExit
    \/ traverseReturn

SpecTraversal == InitTraversal /\ [][NextTraversal]_vars

----------------------------------------------------------------------------
\* The nodes of a sequence.
Range(q) == {q[i] : i \in 1..Len(q)}

\* The nodes reached from the set S by following at most k edges.
RECURSIVE closure(_, _)
closure(S, k) ==
    IF k = 0 THEN S
    ELSE closure(S \cup UNION {Range(edges[n]) : n \in S}, k - 1)

\* The calls of addAssetGraphToBundle made on the bundle.
MaxAdds == 3

\* addAssetGraphToBundle adding the asset and the children of what the
\* bundle contains, in place of the asset's whole graph.
addAssetGraphToBundleOneLevel(a) ==
    /\ Len(addCalls) < MaxAdds
    /\ bundleAssets' = bundleAssets \cup {a}
          \cup UNION {Range(edges[n]) : n \in bundleAssets \cup {a}}
    /\ addCalls' = Append(addCalls, a)
    /\ UNCHANGED <<committedAsset, resolver, edges, traversal>>

\* addAssetGraphToBundle(asset, bundle): the asset and all its child nodes
\* join the assets the bundle contains.
addAssetGraphToBundle(a) ==
    /\ Len(addCalls) < MaxAdds
    /\ bundleAssets' = bundleAssets \cup closure({a}, Cardinality(Nodes))
    /\ addCalls' = Append(addCalls, a)
    /\ UNCHANGED <<committedAsset, resolver, edges, traversal>>

\* An empty bundle over every graph.
InitMembership ==
    /\ NoAsset
    /\ NoQuery
    /\ NoTraversal
    /\ edges \in Graphs
    /\ NoMembership

NextMembership == \E a \in Nodes : addAssetGraphToBundle(a)

SpecMembership == InitMembership /\ [][NextMembership]_vars

----------------------------------------------------------------------------
Next ==
    \E c \in Calls :
        \/ CallGetContent(c)
        \/ InvokeProducer(c)
        \/ getDependencies(c)
        \/ MutateReturned(c)
        \/ CallGetCode(c)
        \/ GetCodeResume(c)
        \/ GetCodeReturn(c)
        \/ CallGetBuffer(c)
        \/ GetBufferResume(c)
        \/ GetBufferReturn(c)
        \/ CallGetStream(c)
        \/ SettleGetBlob(c)
        \/ SettleBufferStream(c)
        \/ SettleGenerate(c)
        \/ CallGetMapBuffer(c)
        \/ MapBufferRead(c)
        \/ SettleMapGenerate(c)
        \/ MapBufferGenerated(c)
        \/ CallGetMap(c)
        \/ GetMapResume(c)
        \/ CallGetAST(c)
        \/ SettleAST(c)

Spec == Init /\ [][Next]_vars

----------------------------------------------------------------------------
\* Vocabulary of the properties.
Started == {c \in Calls : op[c] # "idle"}

RECURSIVE SumTo(_, _)
SumTo(f, n) == IF n = 0 THEN 0 ELSE io[n][f] + SumTo(f, n - 1)
\* Cache reads or generations of one kind issued by all calls together.
Total(f) == SumTo(f, MaxCalls)

HasContentKey == value.contentKey # NoKey
AstOnly == value.contentKey = NoKey /\ value.astKey # NoKey
NoKeys == value.contentKey = NoKey /\ value.astKey = NoKey

ContentOps == {"getCode", "getBuffer", "getStream"}
MapOps == {"getMapBuffer", "getMap"}
OnlyOps(S) == \A c \in Started : op[c] \in S

\* C1: on an asset with a contentKey, getCode() calls alone (however they
\* overlap) read the blob exactly once, open no stream, generate nothing,
\* and every call that settles settles to the decoded blob (or to the
\* cache's error), so all of them agree.
C1_GetCodeReadsBlobOnce ==
    (HasContentKey /\ Started # {} /\ OnlyOps({"getCode"})) =>
        /\ Total("blobContent") = 1
        /\ Total("stream") = 0
        /\ Total("generate") = 0
        /\ \A c \in Started : \A d \in Started :
              (Settled(c) /\ Settled(d)) => Outcome(c) = Outcome(d)
        /\ \A c \in Started : Settled(c) =>
              Outcome(c) = IF IsError(options.content) THEN options.content
                           ELSE Str(Utf8Decode(options.content.d))

\* Two getCode() calls, the second started before the first resolved, have
\* both resolved.
C1_Witness ==
    /\ HasContentKey
    /\ \E c \in Calls : \E d \in Calls :
          /\ c < d
          /\ op[c] = "getCode" /\ op[d] = "getCode"
          /\ pred[d] = {}
          /\ ResolvedOk(c) /\ ResolvedOk(d)

\* C2: on an AST-only asset, getCode() calls alone invoke generateFromAST at
\* most once in total and all settle to the same content.
C2_GetCodeGeneratesOnce ==
    (AstOnly /\ OnlyOps({"getCode"})) =>
        /\ Total("generate") <= 1
        /\ \A c \in Started : \A d \in Started :
              (Settled(c) /\ Settled(d)) => Outcome(c) = Outcome(d)

\* C3: on an AST-only asset a first getBuffer() invokes generation exactly
\* once and reads nothing from the cache, the content slot is set once it
\* has resolved, and a getBuffer() issued after a getBuffer() has resolved
\* invokes no generation and reads nothing from the cache.
C3_SecondGetBufferFromMemo ==
    AstOnly =>
        /\ op[1] = "getBuffer" => io[1] = [NoIO EXCEPT !.generate = 1]
        /\ \A c \in Calls : (op[c] = "getBuffer" /\ ResolvedOk(c)) =>
              content # Null
        /\ \A c \in Calls :
              (op[c] = "getBuffer" /\ \E d \in pred[c] : op[d] = "getBuffer")
                  => io[c] = NoIO

\* A getBuffer() issued after the first getBuffer() resolved has resolved.
C3_Witness ==
    /\ AstOnly
    /\ op[1] = "getBuffer"
    /\ \E c \in Calls :
          /\ op[c] = "getBuffer" /\ 1 \in pred[c]
          /\ ResolvedOk(c)
          /\ Outcome(c) = Outcome(1)

\* C4: on an asset with a contentKey, getBuffer() calls alone open
\* cache.getStream(contentKey) at most once, however many are started before
\* the first resolves.
C4_GetBufferStreamsOnce ==
    (HasContentKey /\ OnlyOps({"getBuffer"})) => Total("stream") <= 1

\* C5: under getCode(), getBuffer() and getStream() calls, a content slot
\* that is non-null is never assigned again.
C5_ContentAssignedOnce ==
    [][(OnlyOps(ContentOps) /\ content # Null) => content' = content]_vars

\* C6: on an AST-only asset whose map blob is not found, one content
\* accessor call interleaved with map accessor calls invokes generateFromAST
\* at most once for the asset.
C6_OneGenerationAcrossAccessors ==
    (/\ AstOnly
     /\ value.mapKey # NoKey
     /\ options.map = CacheError("ENOENT")
     /\ OnlyOps(ContentOps \cup MapOps)
     /\ Cardinality({c \in Started : op[c] \in ContentOps}) <= 1)
        => Total("generate") <= 1

\* C7: a getCode(), getBuffer() or getStream() call issued after a getCode()
\* or getBuffer() call has resolved successfully reads nothing from the cache
\* and invokes no generation.
C7_LaterCallsFromMemo ==
    \A c \in Calls :
        (/\ op[c] \in ContentOps
         /\ \E d \in pred[c] : op[d] \in {"getCode", "getBuffer"})
            => io[c] = NoIO

\* A content accessor issued after a resolved getCode()/getBuffer() has
\* itself resolved.
C7_Witness ==
    \E c \in Calls :
        /\ op[c] \in ContentOps
        /\ \E d \in pred[c] : op[d] \in {"getCode", "getBuffer"}
        /\ ResolvedOk(c)

\* C8: on an asset with neither key, a call of getContent() or getStream()
\* throws and a call of getCode() or getBuffer() rejects, both with the
\* no-content error; the call reads nothing, generates nothing, and leaves
\* the four memo slots and every promise as they were, whatever was called
\* before it.
C8_NoContentFails ==
    [][\A c \in Calls :
          (/\ NoKeys
           /\ op[c] = "idle"
           /\ op'[c] \in ContentOps \cup {"getContent"})
              => /\ result'[c] = IF op'[c] \in {"getContent", "getStream"}
                                 THEN Throw("NoContent")
                                 ELSE Reject("NoContent")
                 /\ io'[c] = NoIO
                 /\ <<content, mapBuffer, map, ast, promise>>' =
                        <<content, mapBuffer, map, ast, promise>>]_vars

\* A content accessor has failed on a keyless asset, and the same accessor
\* called again has failed the same way.
C8_Witness ==
    /\ NoKeys
    /\ \E c \in Calls : \E d \in Calls :
          /\ c < d
          /\ op[c] \in {"getCode", "getBuffer"}
          /\ op[d] = op[c]
          /\ c \in Started /\ Failed(c) /\ Failed(d)
          /\ Outcome(c) = Outcome(d)

\* C9: when the contentKey points to empty bytes, every getBuffer() that
\* settles resolves to a buffer of length 0 and every getCode() to the empty
\* string, first call or later.
C9_EmptyContentIsAValue ==
    (HasContentKey /\ options.content = Buf(<<>>)) =>
        \A c \in Calls :
            /\ (op[c] = "getBuffer" /\ Settled(c)) =>
                  (Outcome(c).t = "buffer" /\ Len(Outcome(c).d) = 0)
            /\ (op[c] = "getCode" /\ Settled(c)) =>
                  (Outcome(c).t = "string" /\ Len(Outcome(c).d) = 0)

\* A getBuffer() issued after an earlier getBuffer() or getCode() resolved
\* has resolved on the empty blob.
C9_Witness ==
    /\ HasContentKey /\ options.content = Buf(<<>>)
    /\ \E c \in Calls :
          /\ op[c] = "getBuffer" /\ pred[c] # {} /\ ResolvedOk(c)
          /\ \E d \in pred[c] : op[d] \in {"getCode", "getBuffer"}

\* C10: a getMapBuffer() on an asset with a mapKey resolves to the cached
\* bytes when the read succeeds; when the read fails with ENOENT and there
\* is an astKey it settles to the outcome of the generation (the generated
\* map's bytes, nothing when no map was generated); on any other failure it
\* rejects with the cache's error, and then no read of the map has invoked
\* a generation.
C10_MapBufferFallback ==
    value.mapKey # NoKey =>
        \A c \in Calls : (op[c] = "getMapBuffer" /\ Settled(c)) =>
            IF ~IsError(options.map)
            THEN Outcome(c) = options.map
            ELSE IF options.map.k = "ENOENT" /\ value.astKey # NoKey
            THEN Outcome(c) =
                    IF IsError(generator.content) THEN generator.content
                    ELSE IF generator.map = Undefined THEN Undefined
                    ELSE Buf(generator.map.d)
            ELSE /\ Outcome(c) = options.map
                 /\ \A d \in Calls : promise[<<"mapGenerate", d>>].st = "none"

\* A getMapBuffer() has resolved to the bytes of the regenerated map after
\* the read of the map failed with ENOENT.
C10_Witness ==
    /\ value.mapKey # NoKey /\ value.astKey # NoKey
    /\ options.map = CacheError("ENOENT")
    /\ \E c \in Calls :
          /\ op[c] = "getMapBuffer"
          /\ io[c].generate = 1
          /\ ResolvedOk(c)
          /\ Outcome(c) = Buf(<<3>>)

\* Promises of one kind that have been created.
Created(k) == {c \in Calls : promise[<<k, c>>].st # "none"}

\* C11: on an asset with a mapKey, whatever calls are made and however they
\* interleave, the map blob is read at most once, the fallback generation is
\* invoked at most once, at most one source map is decoded, and all
\* getMapBuffer() calls return one promise, as do all getMap() calls.
C11_MapSlotsGuarded ==
    value.mapKey # NoKey =>
        /\ Total("blobMap") <= 1
        /\ Cardinality(Created("mapGenerate")) <= 1
        /\ Cardinality(Created("map")) <= 1
        /\ \A c \in Started : \A d \in Started :
              (op[c] \in MapOps /\ op[d] = op[c]) => result[c] = result[d]

\* Two getMap() calls, the second issued before the first resolved, have
\* both resolved to the source map decoded from the regenerated bytes.
C11_Witness ==
    /\ value.mapKey # NoKey
    /\ options.map = CacheError("ENOENT")
    /\ \E c \in Calls : \E d \in Calls :
          /\ c < d
          /\ op[c] = "getMap" /\ op[d] = "getMap"
          /\ pred[d] = {}
          /\ ResolvedOk(c) /\ ResolvedOk(d)
          /\ Outcome(d).t = "sourcemap"
          /\ Created("mapGenerate") # {}

\* C12: on an asset with an astKey, once getAST() has been called the AST
\* blob has been read exactly once, all getAST() calls return one promise,
\* and it settles to the deserialized blob (or to the cache's error).
C12_AstFetchedOnce ==
    (value.astKey # NoKey /\ \E c \in Calls : op[c] = "getAST") =>
        /\ Total("blobAst") = 1
        /\ Cardinality(Created("ast")) = 1
        /\ \A c \in Started : \A d \in Started :
              (op[c] = "getAST" /\ op[d] = "getAST") => result[c] = result[d]
        /\ \A c \in Started : (op[c] = "getAST" /\ Settled(c)) =>
              Outcome(c) = IF IsError(options.ast) THEN options.ast
                           ELSE Ast(options.ast.d)

\* Two getAST() calls have resolved to the AST.
C12_Witness ==
    /\ value.astKey # NoKey
    /\ op[1] = "getAST"
    /\ \E d \in Calls :
          /\ d > 1 /\ op[d] = "getAST"
          /\ ResolvedOk(1) /\ ResolvedOk(d)
          /\ Outcome(d).t = "ast"

\* C13: getAST() on an asset with no astKey returns null, and getMapBuffer()
\* and getMap() on an asset with no mapKey settle to no map (undefined),
\* with or without an astKey; these calls read nothing from the cache, and
\* no fallback generation is ever invoked on an asset with no mapKey.
C13_AbsentKeyEmptyResult ==
    /\ value.astKey = NoKey =>
          \A c \in Calls : op[c] = "getAST" =>
              (result[c] = Null /\ io[c] = NoIO)
    /\ value.mapKey = NoKey =>
          /\ \A c \in Calls : op[c] \in MapOps =>
                /\ io[c] = NoIO
                /\ Settled(c) => Outcome(c) = Undefined
                /\ op[c] = "getMapBuffer" => result[c] = Undefined
          /\ Created("mapGenerate") = {}
          /\ mapBuffer = Null

\* On an asset with an astKey and no mapKey, getMapBuffer() and getMap()
\* have both resolved to no map.
C13_Witness ==
    /\ value.mapKey = NoKey /\ value.astKey # NoKey
    /\ \E c \in Calls : \E d \in Calls :
          /\ op[c] = "getMapBuffer" /\ op[d] = "getMap"
          /\ ResolvedOk(c) /\ ResolvedOk(d)
          /\ Outcome(d) = Undefined

\* C14: when the cache fails a read with an error other than not-found, the
\* getCode() or getBuffer() (asset with a contentKey), getAST() or
\* getMapBuffer() that settles fails with exactly that error, and the call
\* has invoked no generation.
C14_CacheErrorsPropagate ==
    \A c \in Calls : Settled(c) =>
        /\ (/\ op[c] \in {"getCode", "getBuffer"}
            /\ HasContentKey
            /\ IsError(options.content) /\ options.content.k # "ENOENT")
              => (Outcome(c) = options.content /\ io[c].generate = 0)
        /\ (/\ op[c] = "getAST"
            /\ value.astKey # NoKey
            /\ IsError(options.ast) /\ options.ast.k # "ENOENT")
              => Outcome(c) = options.ast
        /\ (/\ op[c] = "getMapBuffer"
            /\ value.mapKey # NoKey
            /\ IsError(options.map) /\ options.map.k # "ENOENT")
              => (Outcome(c) = options.map /\ Created("mapGenerate") = {})

\* A getAST() and a getBuffer() have both failed with the cache's EIO.
C14_Witness ==
    /\ HasContentKey /\ value.astKey # NoKey
    /\ options.content = CacheError("EIO") /\ options.ast = CacheError("EIO")
    /\ \E c \in Calls : \E d \in Calls :
          /\ op[c] = "getBuffer" /\ op[d] = "getAST"
          /\ Failed(c) /\ Failed(d)
          /\ Outcome(c) = CacheError("EIO") /\ Outcome(d) = CacheError("EIO")

\* C15: for any asset and any interleaving, every getCode() result equals
\* the text decoding of every getBuffer() result: of a settled getCode() and
\* a settled getBuffer(), either both fail with the same error or both
\* succeed and the text is the decoding of the bytes.
C15_CodeDecodesBuffer ==
    \A c \in Calls : \A d \in Calls :
        (/\ op[c] = "getCode" /\ op[d] = "getBuffer"
         /\ Settled(c) /\ Settled(d)) =>
            IF Failed(c) \/ Failed(d)
            THEN Outcome(c) = Outcome(d)
            ELSE Outcome(c) = toString(Outcome(d))

\* A generation started by a content accessor has succeeded.
Generated == \E g \in Calls : promise[<<"generate", g>>].st = "ok"

\* C16: on an AST-only asset, as soon as a generation started by a content
\* accessor has succeeded the content memo slot is populated, whether or
\* not the producer or stream that was returned is ever consumed, and a
\* content accessor called from then on starts no generation and no read.
C16_GenerationPopulatesMemo ==
    [][ /\ Generated' => content' # Null
        /\ \A c \in Calls :
              (Generated /\ op[c] = "idle" /\ op'[c] \in ContentOps) =>
                  /\ io'[c] = NoIO
                  /\ promise'[<<"generate", c>>].st = "none" ]_vars

\* getContent() started a generation and its producer was never invoked;
\* the generation succeeded, and a getBuffer() called afterwards resolved
\* from the memo without a generation of its own.
C16_Witness ==
    /\ AstOnly
    /\ op[1] = "getContent" /\ result[1] = Producer("generate", 1)
    /\ promise[<<"generate", 1>>].st = "ok"
    /\ content = Promise("resolve", 1)
    /\ \E d \in Calls :
          /\ op[d] = "getBuffer" /\ ResolvedOk(d)
          /\ io[d] = NoIO
          /\ Total("generate") = 1

\* C17: a getStream() called while the content memo is set returns a stream
\* over that memoized promise and starts no cache read and no generation;
\* and while no content is memoized, getStream() calls alone have started
\* at most one cache read or generation between them.
C17_GetStreamCollapses ==
    [][ /\ \A c \in Calls :
              (op[c] = "idle" /\ op'[c] = "getStream" /\ content # Null) =>
                  /\ result'[c] = StreamOf(content.k, content.c)
                  /\ io'[c] = NoIO
        /\ (content' = Null /\ OnlyOps({"getStream"})') =>
              Total("stream")' + Total("generate")' <= 1 ]_vars

\* C18: getDependencies() returns a new array holding exactly the asset's
\* declared dependencies in their order; the call reads nothing from the
\* cache and changes no memo slot, no promise and no other array; and no
\* step, a caller's modification of a returned array included, changes the
\* asset's dependencies, so that every call yields the same sequence.
C18_DependenciesSnapshot ==
    [][ /\ value' = value
        /\ \A c \in Calls :
              (op[c] = "idle" /\ op'[c] = "getDependencies") =>
                  /\ result'[c] = ArrayRef(c)
                  /\ heap'[c] = value.dependencies
                  /\ \A d \in Calls \ {c} : heap'[d] = heap[d]
                  /\ io'[c] = NoIO
                  /\ UNCHANGED <<content, mapBuffer, map, ast, promise>> ]_vars

\* A first getDependencies() returned the two dependencies and its caller
\* then modified the array; a second call made afterwards has returned an
\* array holding the two dependencies.
C18_Witness ==
    /\ value.dependencies = <<"dep1", "dep2">>
    /\ op[1] = "getDependencies" /\ op[2] = "getDependencies"
    /\ pred[2] = {1}
    /\ Deref(result[1]) # value.dependencies
    /\ Deref(result[2]) = <<"dep1", "dep2">>

\* The call has returned.
Resolved == resolution # NoResolution

\* The re-export recorded for the pair p leads to an asset outside the
\* boundary.
LeavesBoundary(p) ==
    /\ boundary.given
    /\ symbols[p].kind = "reexport"
    /\ ~hasAsset(boundary, symbols[p].asset)

\* C19: getSymbolResolution never follows a re-export chain past the
\* boundary: every re-export it has followed leads to an asset of the
\* boundary bundle, so the pointer leaves the asset the call was asked on
\* only for assets of the bundle; and when the next asset in the chain is
\* outside the boundary the call follows no further and returns the current
\* asset and export with the symbol undefined.
C19_StopsAtCurrentAsset ==
    boundary.given =>
        /\ \A p \in visited : hasAsset(boundary, symbols[p].asset)
        /\ pointer # query => hasAsset(boundary, pointer[1])
        /\ \A p \in visited : ~LeavesBoundary(p)
        /\ (Resolved /\ LeavesBoundary(pointer)) =>
              /\ resolution.asset = pointer[1]
              /\ resolution.exportSymbol = pointer[2]
              /\ resolution.symbol = Undefined
              /\ resolution.loc = loc

\* With the boundary {a}, a call asked on "b", outside the bundle, followed
\* its re-export into "a" and returned there with the symbol undefined, the
\* name on "a" being a re-export from "b", which defines it locally.
C19_Witness ==
    /\ boundary = Bundle({"a"})
    /\ query = <<"b", "x">>
    /\ symbols[query] = ReExport("a", "x")
    /\ symbols[<<"a", "x">>] = ReExport("b", "y")
    /\ symbols[<<"b", "y">>].kind = "local"
    /\ Resolved
    /\ resolution.asset = "a" /\ resolution.exportSymbol = "x"
    /\ resolution.symbol = Undefined
    /\ resolution.loc = query
    /\ visited = {query}

\* The pair reached from p by following n re-exports (p itself where the
\* chain ends earlier).
RECURSIVE Chain(_, _)
Chain(p, n) ==
    IF n = 0 \/ symbols[p].kind # "reexport" THEN p
    ELSE Chain(<<symbols[p].asset, symbols[p].symbol>>, n - 1)

\* The pair p lies on a re-export cycle, of whatever length.
OnCycle(p) ==
    \E n \in 1..Cardinality(Pairs) :
        /\ Chain(p, n) = p
        /\ \A m \in 0..(n - 1) : symbols[Chain(p, m)].kind = "reexport"

\* C20: every call of getSymbolResolution returns, and a call asked for a
\* pair that lies on a re-export cycle returns the symbol undefined, its
\* visited set holding only (asset, exportSymbol) pairs of that cycle.
C20_CycleTerminates ==
    /\ <>Resolved
    /\ [](OnCycle(query) =>
            /\ Resolved => resolution.symbol = Undefined
            /\ visited \subseteq {Chain(query, n) : n \in 0..Cardinality(Pairs)})

\* With no boundary, a call asked for a pair on a cycle through all four
\* pairs has followed the four of them and returned the symbol undefined.
C20_Witness ==
    /\ ~boundary.given
    /\ OnCycle(query)
    /\ visited = Pairs
    /\ Resolved
    /\ resolution.symbol = Undefined
    /\ <<resolution.asset, resolution.exportSymbol>> = query

\* C21: a call returns the asset and export its pointer has reached, and
\* its symbol is undefined where the name is absent from that asset's symbol
\* table, null where the asset's symbols are cleared, and the local name
\* where the name has a genuine local definition.
C21_ThreeOutcomes ==
    Resolved =>
        /\ resolution.asset = pointer[1]
        /\ resolution.exportSymbol = pointer[2]
        /\ resolution.loc = loc
        /\ symbols[pointer].kind = "missing" =>
              resolution.symbol = Undefined
        /\ symbols[pointer].kind = "cleared" =>
              resolution.symbol = Null
        /\ symbols[pointer].kind = "local" =>
              resolution.symbol = Name(symbols[pointer].symbol)

\* Asked for x on "a", whose x re-exports y of "b", the call returned at
\* "b" with null, the symbols of "b" being cleared.
C21_Witness ==
    /\ query = <<"a", "x">>
    /\ symbols[query] = ReExport("b", "y")
    /\ symbols[<<"b", "y">>] = Cleared
    /\ symbols[<<"b", "x">>] = Local("foo")
    /\ Resolved
    /\ resolution.asset = "b" /\ resolution.exportSymbol = "y"
    /\ resolution.symbol = Null
    /\ resolution.loc = query

\* The nodes reached from the set S in at most k steps through nodes at
\* which the visitor continued.
RECURSIVE Through(_, _)
Through(S, k) ==
    IF k = 0 THEN S
    ELSE Through(S \cup UNION {Range(edges[n]) :
                     n \in {m \in S : decision[m] = "continue"}}, k - 1)

\* C22: once a visitor has called stop() no callback fires any more, for
\* any node (traverseBundles over [n1, n2, n3] with stop() at n1 enters
\* neither n2 nor n3); no node is entered through a node at which the
\* visitor called skipChildren(); and a traversal that returns without
\* stop() has entered every node reached from its start nodes through
\* nodes whose children were not skipped, and no other.
C22_TraversalControl ==
    [][ /\ stopped => UNCHANGED <<events, entered, stack>>
        /\ (roots = <<"n1", "n2", "n3">> /\ decision'["n1"] = "stop") =>
              (entered' = {"n1"} /\ events' = <<<<"enter", "n1">>>>)
        /\ \A n \in entered' :
              parent'[n] # Root => decision'[parent'[n]] = "continue"
        /\ (stack' = <<>> /\ ~stopped') =>
              entered' = Through(Range(roots), Cardinality(Nodes))' ]_vars

\* Over [n1, n2, n3] with n2 a child of n1: the visitor skipped the
\* children of n1, n2 was entered as the next start node and left, and the
\* visitor called stop() when it entered n3, the last callback fired.
C22_Witness ==
    /\ roots = <<"n1", "n2", "n3">>
    /\ edges["n1"] = <<"n2">>
    /\ decision["n1"] = "skipChildren"
    /\ parent["n2"] = Root
    /\ decision["n3"] = "stop"
    /\ stopped
    /\ events[Len(events)] = <<"enter", "n3">>
    /\ <<"exit", "n2">> \in Range(events)

\* C23: a call of addAssetGraphToBundle with the asset of the call before
\* it leaves the bundle's membership as it was, and after any call the
\* bundle contains the asset and whatever it contained before.
C23_AddIsIdempotent ==
    [][ \A a \in Nodes :
          addCalls' = Append(addCalls, a) =>
              /\ a \in bundleAssets'
              /\ bundleAssets \subseteq bundleAssets'
              /\ (addCalls # <<>> /\ addCalls[Len(addCalls)] = a) =>
                    bundleAssets' = bundleAssets ]_vars

\* With n2 a child of n1 and n3 a child of n2, addAssetGraphToBundle was
\* called twice with n1 and the bundle contains the three nodes.
C23_Witness ==
    /\ edges["n1"] = <<"n2">> /\ edges["n2"] = <<"n3">>
    /\ addCalls = <<"n1", "n1">>
    /\ bundleAssets = {"n1", "n2", "n3"}

\* The accessors of the content, getContent() included.
ContentAccessors == ContentOps \cup {"getContent"}

\* C24: on an asset with a contentKey, with or without an astKey, no call
\* of getContent(), getCode(), getBuffer() or getStream() invokes the code
\* generation, however the calls interleave with each other and with the
\* other accessors: their content comes from the cache or from the memo.
C24_CachedBytesFirst ==
    HasContentKey =>
        /\ Created("generate") = {}
        /\ \A c \in Calls : op[c] \in ContentAccessors =>
              /\ io[c].generate = 0
              /\ result[c] # Producer("generate", c)
              /\ (op[c] = "getStream" /\ result[c].t # "throw") =>
                    result[c].k \in {"cache", "getBlob", "bufferStream"}

\* On an asset with both keys, a getStream() opened the cache stream and a
\* getCode() called afterwards resolved from the blob: nothing was
\* generated.
C24_Witness ==
    /\ HasContentKey /\ value.astKey # NoKey
    /\ op[1] = "getStream" /\ result[1] = StreamOf("cache", 1)
    /\ op[2] = "getCode" /\ ResolvedOk(2)
    /\ io[2].blobContent = 1
    /\ Total("generate") = 0

\* The producers getContent() returned for a generation.
GenerationProducers ==
    {c \in Calls : op[c] = "getContent" /\ result[c] = Producer("generate", c)}

\* C25: on an AST-only asset, a getContent() that returned a producer has
\* started no generation while the producer is not invoked, and exactly one
\* once the producer was invoked, however often.
C25_ProducerGeneratesOnFirstUse ==
    AstOnly =>
        \A c \in GenerationProducers :
            io[c].generate = IF invoked[c] = 0 THEN 0 ELSE 1

\* C25 as the code has it: on an AST-only asset, a getContent() that
\* returned a producer has itself started exactly one generation, before
\* any use of the producer, and invoking the producer, once or again,
\* starts no generation and reads nothing from the cache.
C25_GetContentGeneratesAtCall ==
    AstOnly =>
        \A c \in GenerationProducers :
            /\ io[c] = [NoIO EXCEPT !.generate = 1]
            /\ promise[<<"generate", c>>].st # "none"

\* The producer of a getContent() on an AST-only asset was invoked twice,
\* and the call has started one generation.
C25_Witness ==
    /\ AstOnly
    /\ 1 \in GenerationProducers
    /\ invoked[1] = MaxUses
    /\ io[1].generate = 1

\* C26: whenever the content memo slot holds a fulfilled promise its value
\* is a string or a Buffer, whatever the generator returned, and no
\* getCode() or getBuffer() fails on what the memo holds (with a TypeError).
C26_MemoIsTextOrBytes ==
    /\ (content # Null /\ promise[<<content.k, content.c>>].st = "ok") =>
          IsStringOrBuffer(promise[<<content.k, content.c>>].v)
    /\ \A c \in Calls : op[c] \in {"getCode", "getBuffer"} =>
          Outcome(c) # Reject("TypeError")

\* The failures of the cache.
CacheErrors == {CacheError("ENOENT"), CacheError("EIO")}

\* The accessors that read the memo slot the accessor o fills.
SlotReaders(o) ==
    CASE o \in {"getCode", "getBuffer"} -> ContentAccessors
      [] o = "getAST" -> {"getAST"}
      [] o = "getMapBuffer" -> MapOps
      [] OTHER -> {}

\* The call d is a getCode() or getBuffer() on an asset with a contentKey,
\* a getAST() or a getMapBuffer(), and has failed with the cache's error.
FailedFetch(d) ==
    /\ Outcome(d) \in CacheErrors
    /\ op[d] \in {"getCode", "getBuffer"} => HasContentKey

\* C27: a call made after a fetch has failed with the cache's error, of an
\* accessor reading the same memo slot, issues no cache read and no
\* generation, and fails with the same error once it settles; a getStream()
\* is a stream over a promise that fails with it.
C27_FailureIsMemoized ==
    \A c \in Calls : \A d \in failedPred[c] :
        (FailedFetch(d) /\ op[c] \in SlotReaders(op[d])) =>
            /\ io[c] = NoIO
            /\ (op[c] # "getStream" /\ Settled(c)) => Outcome(c) = Outcome(d)
            /\ op[c] = "getStream" =>
                  /\ result[c].t = "stream"
                  /\ result[c].k \in {"getBlob", "bufferStream"}
                  /\ LET p == promise[<<result[c].k, result[c].c>>] IN
                     /\ p.st \in {"pending", "err"}
                     /\ p.st = "err" => p.v = Outcome(d)

\* A getBuffer() failed with the cache's EIO; a getCode() called after
\* that has failed with EIO too, having read nothing.
C27_Witness ==
    /\ HasContentKey /\ options.content = CacheError("EIO")
    /\ op[1] = "getBuffer" /\ op[2] = "getCode"
    /\ failedPred[2] = {1}
    /\ Failed(2) /\ Outcome(2) = CacheError("EIO")
    /\ io[2] = NoIO

\* The slot holds a promise of one of the kinds K that a call of one of the
\* accessors O created.
FilledBy(slot, K, O) ==
    /\ slot.t = "promise"
    /\ slot.k \in K
    /\ slot.c \in Calls
    /\ op[slot.c] \in O

\* C28: every step that changes the content slot stores a promise created
\* by getContent(), getCode(), getBuffer() or getStream(); every step that
\* changes the mapBuffer or the map slot stores the promise of a
\* getMapBuffer() or getMap(), every step that changes the ast slot that of
\* a getAST(); and a slot that is set is never unset again.
C28_SlotsIndependent ==
    [][ /\ content' # content =>
              FilledBy(content, {"getBlob", "bufferStream", "resolve"},
                       ContentAccessors)'
        /\ mapBuffer' # mapBuffer => FilledBy(mapBuffer, {"mapBuffer"}, MapOps)'
        /\ map' # map => FilledBy(map, {"map"}, {"getMap"})'
        /\ ast' # ast => FilledBy(ast, {"ast"}, {"getAST"})'
        /\ content # Null => content' # Null
        /\ mapBuffer # Null => mapBuffer' # Null
        /\ map # Null => map' # Null
        /\ ast # Null => ast' # Null ]_vars

\* On an AST-only asset whose map is not in the cache, a getMap() has
\* resolved from its fallback generation and a getCode() from a generation
\* of its own: the content slot holds the promise of the getCode(), the
\* map slots those of the getMap(), and the ast slot is unset.
C28_Witness ==
    /\ AstOnly /\ value.mapKey # NoKey
    /\ op[1] = "getMap" /\ op[2] = "getCode"
    /\ ResolvedOk(1) /\ ResolvedOk(2)
    /\ promise[<<"mapGenerate", 1>>].st = "ok"
    /\ content.c = 2
    /\ mapBuffer = Promise("mapBuffer", 1)
    /\ map = Promise("map", 1)
    /\ ast = Null

====
